---- MODULE Spec2Model ----
(***************************************************************************)
(* Model of src/main.py: furigana annotation of lyric text.                *)
(*                                                                         *)
(* A character is its Unicode code point, a string is a sequence of code   *)
(* points, so that the character classes of the regular expressions are    *)
(* the ranges written in the source.                                       *)
(***************************************************************************)
EXTENDS Integers, Sequences, FiniteSets, TLC

(***************************************************************************)
(* Bounds of the model.                                                    *)
(***************************************************************************)
MaxLen == 5      \* longest content string given to add_furigana_smart
MaxText == 5     \* longest text given to add_furigana_basic
MaxBlock == 6    \* longest lyric block given to process_lyrics_text

(***************************************************************************)
(* Representative characters (code points).                                *)
(***************************************************************************)
ChLF == 10          \* "\n"
ChSP == 32          \* " "
ChLParen == 40      \* "("
ChRParen == 41      \* ")"
ChZero == 48        \* "0"
ChLBrack == 91      \* "["
ChRBrack == 93      \* "]"
ChLatin == 97       \* "a"
ChHira == 12363     \* U+304B hiragana KA
ChKata == 12459     \* U+30AB katakana KA
ChKanji == 28450    \* U+6F22
ChFwLParen == 65288 \* U+FF08 fullwidth "("
ChFwRParen == 65289 \* U+FF09 fullwidth ")"

SmartAlphabet == {ChKanji, ChHira, ChLParen, ChRParen, ChFwLParen, ChFwRParen, ChLatin}
BasicAlphabet == {ChKanji, ChHira, ChKata, ChLatin, ChLParen}
BlockAlphabet == {ChLBrack, ChZero, ChRBrack, ChSP, ChLF, ChKanji, ChHira}

Seqs(A, n) == UNION {[1..k -> A] : k \in 0..n}

RECURSIVE Join(_)
\* "".join(list)
Join(ss) == IF ss = <<>> THEN <<>> ELSE Head(ss) \o Join(Tail(ss))

(***************************************************************************)
(* Character classes of the regular expressions.                           *)
(***************************************************************************)
KanjiLo == 19968    \* 一
KanjiHi == 40959    \* 鿿
KanaLo == 12352     \* ぀
KanaHi == 12543     \* ヿ
IterMark == 12293   \* 々

IsKanji(c) == c >= KanjiLo /\ c <= KanjiHi
IsKana(c) == c >= KanaLo /\ c <= KanaHi

\* [一-鿿぀-ヿ々] with the kana left out of the class
IsRunCharKanjiOnly(c) == IsKanji(c) \/ c = IterMark
\* [一-鿿぀-ヿ々]
IsRunChar(c) == IsKanji(c) \/ IsKana(c) \/ c = IterMark

\* [\(\（]
IsOpen(c) == c = ChLParen \/ c = ChFwLParen
\* [\)\）] accepting only the ASCII closing parenthesis
IsCloseAsciiOnly(c) == c = ChRParen
\* [\)\）]
IsClose(c) == c = ChRParen \/ c = ChFwRParen

has_kanji(text) == \E i \in 1..Len(text) : IsKanji(text[i])
has_kana(text) == \E i \in 1..Len(text) : IsKana(text[i])

(***************************************************************************)
(* EXISTING_FURIGANA_REGEX: RUN+ OPEN KANA+ CLOSE.  OPEN is not in RUN and *)
(* CLOSE is not in KANA, so a match that starts at p takes every RUN       *)
(* character from p and every KANA character after OPEN.                   *)
(***************************************************************************)
RECURSIVE RunEnd(_, _)
\* first position >= p whose character is not in the RUN class
RunEnd(s, p) == IF p <= Len(s) /\ IsRunChar(s[p]) THEN RunEnd(s, p + 1) ELSE p

RECURSIVE KanaEnd(_, _)
\* first position >= p whose character is not kana
KanaEnd(s, p) == IF p <= Len(s) /\ IsKana(s[p]) THEN KanaEnd(s, p + 1) ELSE p

\* position of the closing parenthesis of the match starting at p, 0 if none
MatchEnd(s, p) ==
  LET q == RunEnd(s, p) IN
    IF q = p \/ q > Len(s) \/ ~IsOpen(s[q]) THEN 0
    ELSE LET r == KanaEnd(s, q + 1) IN
      IF r = q + 1 \/ r > Len(s) \/ ~IsClose(s[r]) THEN 0 ELSE r

\* start of the leftmost match at or after position from, 0 if none
Search(s, from) ==
  LET starts == {p \in from..Len(s) : MatchEnd(s, p) # 0} IN
    IF starts = {} THEN 0 ELSE CHOOSE p \in starts : \A q \in starts : p <= q

\* EXISTING_FURIGANA_REGEX.split without its capture group: the matched
\* texts are dropped from the list
RECURSIVE SplitNoCapture(_, _)
SplitNoCapture(s, from) ==
  LET p == Search(s, from) IN
    IF p = 0 THEN <<SubSeq(s, from, Len(s))>>
    ELSE <<SubSeq(s, from, p - 1)>> \o SplitNoCapture(s, MatchEnd(s, p) + 1)

RECURSIVE SplitFrom(_, _)
\* EXISTING_FURIGANA_REGEX.split(s) from position from: text before the
\* match, the captured match, then the split of the rest
SplitFrom(s, from) ==
  LET p == Search(s, from) IN
    IF p = 0 THEN <<SubSeq(s, from, Len(s))>>
    ELSE <<SubSeq(s, from, p - 1), SubSeq(s, p, MatchEnd(s, p))>>
           \o SplitFrom(s, MatchEnd(s, p) + 1)

\* the split of a pattern that has no capture group
regex_split_nocapture(s) == SplitNoCapture(s, 1)
\* EXISTING_FURIGANA_REGEX.split(text)
regex_split(s) == SplitFrom(s, 1)

\* EXISTING_FURIGANA_REGEX.fullmatch(part)
fullmatch(part) == Len(part) > 0 /\ MatchEnd(part, 1) = Len(part)

(***************************************************************************)
(* The phonetic-conversion service (pykakasi) is external.  A service is a *)
(* deterministic function of its input, chosen from a family:              *)
(*   seg   how the text is cut into tokens                                 *)
(*         "char"  one token per character                                 *)
(*         "okuri" a kanji run with the kana that follow it is one token,  *)
(*                 other characters are grouped in runs of non-kanji       *)
(*   miss  the reading of a kanji                                          *)
(*         "none"  a hiragana                                              *)
(*         "same"  the kanji itself (no dictionary entry, text kept)       *)
(*         "empty" nothing (no dictionary entry, text dropped)             *)
(*   fail  the service raises on a text that contains a kanji              *)
(* The token surfaces of every service concatenate to its input.           *)
(***************************************************************************)
Services == [seg : {"char", "okuri"}, miss : {"none", "same", "empty"}, fail : {FALSE}]
FailingServices == [seg : {"char"}, miss : {"none"}, fail : {TRUE, FALSE}]

KataLo == 12449     \* U+30A1
KataHi == 12534     \* U+30F6
KataShift == 96     \* katakana - hiragana

RECURSIVE hira_of(_, _)
\* item['hira']: the reading of a surface in hiragana
hira_of(svc, orig) ==
  IF orig = <<>> THEN <<>>
  ELSE LET c == Head(orig)
           r == IF IsKanji(c)
                  THEN (CASE svc.miss = "none" -> <<ChHira>>
                          [] svc.miss = "same" -> <<c>>
                          [] OTHER -> <<>>)
                ELSE IF c >= KataLo /\ c <= KataHi THEN <<c - KataShift>>
                ELSE <<c>>
       IN r \o hira_of(svc, Tail(orig))

RECURSIVE KanjiEnd(_, _)
KanjiEnd(s, p) == IF p <= Len(s) /\ IsKanji(s[p]) THEN KanjiEnd(s, p + 1) ELSE p

RECURSIVE OtherEnd(_, _)
OtherEnd(s, p) == IF p <= Len(s) /\ ~IsKanji(s[p]) THEN OtherEnd(s, p + 1) ELSE p

\* first position after the token that starts at p
TokenEnd(svc, s, p) ==
  IF svc.seg = "char" THEN p + 1
  ELSE IF IsKanji(s[p]) THEN KanaEnd(s, KanjiEnd(s, p))
  ELSE OtherEnd(s, p)

RECURSIVE Tokens(_, _, _)
Tokens(svc, s, p) ==
  IF p > Len(s) THEN <<>>
  ELSE LET e == TokenEnd(svc, s, p)
           orig == SubSeq(s, p, e - 1)
       IN <<[orig |-> orig, hira |-> hira_of(svc, orig)]>> \o Tokens(svc, s, e)

\* conversion(text) raises
conversion_raises(svc, t) == svc.fail /\ has_kanji(t)

\* conversion(text) = kks.convert(text)
conversion(svc, t) == Tokens(svc, t, 1)

(***************************************************************************)
(* add_furigana_basic                                                      *)
(***************************************************************************)
\* the test of line 41 with "or" for "and"
NeedsReadingOr(item) == has_kanji(item.orig) \/ item.orig # item.hira
\* line 41: has_kanji(orig) and orig != hira
NeedsReading(item) == has_kanji(item.orig) /\ item.orig # item.hira

\* lines 41-44: what one token adds to new_line
Emit(item) ==
  IF NeedsReading(item) THEN item.orig \o <<ChLParen>> \o item.hira \o <<ChRParen>>
  ELSE item.orig

RECURSIVE EmitAll(_)
EmitAll(items) == IF items = <<>> THEN <<>> ELSE Emit(Head(items)) \o EmitAll(Tail(items))

add_furigana_basic(svc, t) == EmitAll(conversion(svc, t))

(***************************************************************************)
(* add_furigana_smart                                                      *)
(***************************************************************************)
\* line 62 deciding by the text of the part alone that nothing is annotated
IsAnnotatedNever(part) == FALSE
\* line 62: the part is an already annotated word
IsAnnotated(part) == fullmatch(part)

\* lines 57-66: what one part adds to final_line
ProcessPart(svc, part) ==
  IF part = <<>> THEN <<>>
  ELSE IF IsAnnotated(part) THEN <<part>>
  ELSE <<add_furigana_basic(svc, part)>>

RECURSIVE ProcessParts(_, _)
ProcessParts(svc, ps) ==
  IF ps = <<>> THEN <<>> ELSE ProcessPart(svc, Head(ps)) \o ProcessParts(svc, Tail(ps))

add_furigana_smart(svc, t) == Join(ProcessParts(svc, regex_split(t)))

\* the parts of t that reach add_furigana_basic, in order
RECURSIVE PlainOf(_)
PlainOf(ps) ==
  IF ps = <<>> THEN <<>>
  ELSE (IF Head(ps) # <<>> /\ ~IsAnnotated(Head(ps)) THEN <<Head(ps)>> ELSE <<>>)
         \o PlainOf(Tail(ps))

smart_raises(svc, t) ==
  \E i \in 1..Len(PlainOf(regex_split(t))) : conversion_raises(svc, PlainOf(regex_split(t))[i])

(***************************************************************************)
(* Python values and string methods used by process_lyrics_text.           *)
(***************************************************************************)
NoneVal == [t |-> "None", v |-> <<>>]
Str(s) == [t |-> "str", v |-> s]

\* "not x" for a str or None
Falsy(x) == x.t = "None" \/ x.v = <<>>

\* the characters for which str.isspace() is true
WhiteSpace ==
  (9..13) \cup (28..32) \cup {133, 160, 5760} \cup (8192..8202)
    \cup {8232, 8233, 8239, 8287, 12288}

RECURSIVE lstrip(_)
\* str.lstrip()
lstrip(s) == IF s # <<>> /\ Head(s) \in WhiteSpace THEN lstrip(Tail(s)) ELSE s

RECURSIVE rstrip(_)
\* str.rstrip()
rstrip(s) ==
  IF s # <<>> /\ s[Len(s)] \in WhiteSpace THEN rstrip(SubSeq(s, 1, Len(s) - 1)) ELSE s

\* str.lstrip() where line 79 calls str.strip(): trailing whitespace is kept
strip_leading_only(s) == lstrip(s)
\* str.strip()
strip(s) == rstrip(lstrip(s))

RECURSIVE split_lines(_, _)
\* s.split('\n') from position from
split_lines(s, from) ==
  LET nl == {p \in from..Len(s) : s[p] = ChLF} IN
    IF nl = {} THEN <<SubSeq(s, from, Len(s))>>
    ELSE LET p == CHOOSE p \in nl : \A q \in nl : p <= q
         IN <<SubSeq(s, from, p - 1)>> \o split_lines(s, p + 1)

RECURSIVE join_lines(_)
\* '\n'.join(ls)
join_lines(ls) ==
  IF ls = <<>> THEN <<>>
  ELSE IF Len(ls) = 1 THEN Head(ls)
  ELSE Head(ls) \o <<ChLF>> \o join_lines(Tail(ls))

(***************************************************************************)
(* time_pattern: a "[", one or more of digit, ":", ".", a "]" (group 1),  *)
(* then the rest of the line (group 2).                                    *)
(***************************************************************************)
ChColon == 58       \* ":"
ChDot == 46         \* "."
DigitHi == 57       \* "9"

\* [\d:.] for the digits of the model's alphabet
IsStampChar(c) == (c >= ChZero /\ c <= DigitHi) \/ c = ChColon \/ c = ChDot

RECURSIVE StampEnd(_, _)
\* first position >= p whose character is not in [\d:.]
StampEnd(s, p) == IF p <= Len(s) /\ IsStampChar(s[p]) THEN StampEnd(s, p + 1) ELSE p

\* position of the "]" that closes group 1, 0 when the line does not match
time_match(line) ==
  IF Len(line) < 3 \/ line[1] # ChLBrack THEN 0
  ELSE LET e == StampEnd(line, 2) IN
    IF e = 2 \/ e > Len(line) \/ line[e] # ChRBrack THEN 0 ELSE e

\* group 1 closed before the "]", which leaves the "]" out of the timestamp
timestamp_no_bracket(line) == SubSeq(line, 1, time_match(line) - 1)
\* match.group(1)
timestamp_of(line) == SubSeq(line, 1, time_match(line))

\* match.group(2).strip()
content_of(line) == strip(SubSeq(line, time_match(line) + 1, Len(line)))

\* line 87
gate(content) == content # <<>> /\ has_kanji(content) /\ has_kana(content)

\* lines 70-71 returning the argument itself
EmptyResultSame(x) == x
\* lines 70-71: if not lyrics_str: return None
EmptyResult(x) == NoneVal

(***************************************************************************)
(* State.                                                                  *)
(*   svc          the conversion service in use                            *)
(*   pc           position of the running function                         *)
(*   add_furigana_smart: text, parts, pi (index of the part of the loop),  *)
(*     final_line, out (returned value); calls (arguments given to         *)
(*     add_furigana_basic), kept (indices of the parts kept verbatim),     *)
(*     pass and first (first result, when the function is applied again)   *)
(*   add_furigana_basic: text, result, ri (index of the item of the loop), *)
(*     new_line, out                                                       *)
(*   process_lyrics_text: lyrics_str, lines, li (index of the line of the  *)
(*     loop), new_lines, ret (returned value); sent (indices of the lines  *)
(*     given to add_furigana_smart), bcalls (line index and argument of    *)
(*     each call of add_furigana_basic)                                    *)
(***************************************************************************)
VARIABLES svc, pc, text, parts, pi, final_line, calls, kept, out, pass, first,
          result, ri, new_line, lyrics_str, lines, li, new_lines, ret, sent, bcalls

smartVars == <<text, parts, pi, final_line, calls, kept, out, pass, first>>
basicVars == <<result, ri, new_line>>
blockVars == <<lyrics_str, lines, li, new_lines, ret, sent, bcalls>>
vars == <<svc, pc, smartVars, basicVars, blockVars>>

SmartIdle ==
  /\ parts = <<>> /\ pi = 1 /\ final_line = <<>> /\ calls = <<>> /\ kept = {}
  /\ out = <<>> /\ pass = 1 /\ first = <<>>
BasicIdle == result = <<>> /\ ri = 1 /\ new_line = <<>>
BlockIdle ==
  /\ lyrics_str = NoneVal /\ lines = <<>> /\ li = 1 /\ new_lines = <<>>
  /\ ret = NoneVal /\ sent = {} /\ bcalls = <<>>

(***************************************************************************)
(* add_furigana_smart applied to a content string, and to its own result.  *)
(***************************************************************************)
InitSmart ==
  /\ svc \in Services
  /\ text \in Seqs(SmartAlphabet, MaxLen)
  /\ pc = "smart_start"
  /\ SmartIdle /\ BasicIdle /\ BlockIdle

\* lines 52-54
SmartSplit ==
  /\ pc = "smart_start"
  /\ parts' = regex_split(text)
  /\ pi' = 1
  /\ final_line' = <<>>
  /\ calls' = <<>>
  /\ kept' = {}
  /\ pc' = "smart_loop"
  /\ UNCHANGED <<svc, text, out, pass, first, basicVars, blockVars>>

\* lines 57-58
SkipEmpty ==
  /\ pc = "smart_loop"
  /\ pi <= Len(parts)
  /\ parts[pi] = <<>>
  /\ pi' = pi + 1
  /\ UNCHANGED <<svc, pc, text, parts, final_line, calls, kept, out, pass, first,
                 basicVars, blockVars>>

\* lines 62-63
KeepAnnotated ==
  /\ pc = "smart_loop"
  /\ pi <= Len(parts)
  /\ parts[pi] # <<>>
  /\ IsAnnotated(parts[pi])
  /\ final_line' = final_line \o ProcessPart(svc, parts[pi])
  /\ kept' = kept \cup {pi}
  /\ pi' = pi + 1
  /\ UNCHANGED <<svc, pc, text, parts, calls, out, pass, first, basicVars, blockVars>>

\* lines 64-66
AnnotatePlain ==
  /\ pc = "smart_loop"
  /\ pi <= Len(parts)
  /\ parts[pi] # <<>>
  /\ ~IsAnnotated(parts[pi])
  /\ final_line' = final_line \o ProcessPart(svc, parts[pi])
  /\ calls' = Append(calls, parts[pi])
  /\ pi' = pi + 1
  /\ UNCHANGED <<svc, pc, text, parts, kept, out, pass, first, basicVars, blockVars>>

\* line 68
SmartJoin ==
  /\ pc = "smart_loop"
  /\ pi > Len(parts)
  /\ out' = Join(final_line)
  /\ pc' = "smart_done"
  /\ UNCHANGED <<svc, text, parts, pi, final_line, calls, kept, pass, first,
                 basicVars, blockVars>>

\* the result of the first application is given to add_furigana_smart again
Rerun ==
  /\ pc = "smart_done"
  /\ pass = 1
  /\ first' = out
  /\ text' = out
  /\ pass' = 2
  /\ pc' = "smart_start"
  /\ UNCHANGED <<svc, parts, pi, final_line, calls, kept, out, basicVars, blockVars>>

NextSmart == SmartSplit \/ SkipEmpty \/ KeepAnnotated \/ AnnotatePlain \/ SmartJoin \/ Rerun

SpecSmart == InitSmart /\ [][NextSmart]_vars

(***************************************************************************)
(* add_furigana_basic applied to a text.                                   *)
(***************************************************************************)
InitBasic ==
  /\ svc \in Services
  /\ text \in Seqs(BasicAlphabet, MaxText)
  /\ pc = "basic_start"
  /\ SmartIdle /\ BasicIdle /\ BlockIdle

\* lines 33-34
BasicConvert ==
  /\ pc = "basic_start"
  /\ result' = conversion(svc, text)
  /\ ri' = 1
  /\ new_line' = <<>>
  /\ pc' = "basic_loop"
  /\ UNCHANGED <<svc, smartVars, blockVars>>

\* lines 41-42
EmitReading ==
  /\ pc = "basic_loop"
  /\ ri <= Len(result)
  /\ NeedsReading(result[ri])
  /\ new_line' = new_line \o Emit(result[ri])
  /\ ri' = ri + 1
  /\ UNCHANGED <<svc, pc, result, smartVars, blockVars>>

\* lines 43-44
EmitSurface ==
  /\ pc = "basic_loop"
  /\ ri <= Len(result)
  /\ ~NeedsReading(result[ri])
  /\ new_line' = new_line \o Emit(result[ri])
  /\ ri' = ri + 1
  /\ UNCHANGED <<svc, pc, result, smartVars, blockVars>>

\* line 45
BasicReturn ==
  /\ pc = "basic_loop"
  /\ ri > Len(result)
  /\ out' = new_line
  /\ pc' = "basic_done"
  /\ UNCHANGED <<svc, text, parts, pi, final_line, calls, kept, pass, first,
                 basicVars, blockVars>>

NextBasic == BasicConvert \/ EmitReading \/ EmitSurface \/ BasicReturn

SpecBasic == InitBasic /\ [][NextBasic]_vars

(***************************************************************************)
(* process_lyrics_text applied to a lyric block.                           *)
(***************************************************************************)
BlockServices == [seg : {"char", "okuri"}, miss : {"none"}, fail : {FALSE}]
BlockInputs == {NoneVal} \cup {Str(s) : s \in Seqs(BlockAlphabet, MaxBlock)}

InitBlock ==
  /\ svc \in BlockServices
  /\ lyrics_str \in BlockInputs
  /\ pc = "block_start"
  /\ text = <<>>
  /\ lines = <<>> /\ li = 1 /\ new_lines = <<>> /\ ret = NoneVal
  /\ sent = {} /\ bcalls = <<>>
  /\ SmartIdle /\ BasicIdle

\* line 71
ReturnEmpty ==
  /\ pc = "block_start"
  /\ Falsy(lyrics_str)
  /\ ret' = EmptyResult(lyrics_str)
  /\ pc' = "block_done"
  /\ UNCHANGED <<svc, smartVars, basicVars, lyrics_str, lines, li, new_lines, sent, bcalls>>

\* lines 73-76
SplitLines ==
  /\ pc = "block_start"
  /\ ~Falsy(lyrics_str)
  /\ lines' = split_lines(lyrics_str.v, 1)
  /\ li' = 1
  /\ new_lines' = <<>>
  /\ pc' = "block_loop"
  /\ UNCHANGED <<svc, smartVars, basicVars, lyrics_str, ret, sent, bcalls>>

\* lines 79-80 and 96-99: the line is not given to add_furigana_smart
LinePass ==
  /\ pc = "block_loop"
  /\ li <= Len(lines)
  /\ LET line == strip(lines[li]) IN
       /\ time_match(line) = 0 \/ ~gate(content_of(line))
       /\ new_lines' = Append(new_lines, line)
  /\ li' = li + 1
  /\ UNCHANGED <<svc, pc, smartVars, basicVars, lyrics_str, lines, ret, sent, bcalls>>

\* lines 79-90: the line is given to add_furigana_smart, which returns
LineAnnotate ==
  /\ pc = "block_loop"
  /\ li <= Len(lines)
  /\ LET line == strip(lines[li])
         content == content_of(line)
         plain == PlainOf(regex_split(content))
     IN
       /\ time_match(line) # 0
       /\ gate(content)
       /\ ~smart_raises(svc, content)
       /\ new_lines' = Append(new_lines, timestamp_of(line) \o add_furigana_smart(svc, content))
       /\ bcalls' = bcalls \o [k \in 1..Len(plain) |-> [line |-> li, arg |-> plain[k]]]
  /\ sent' = sent \cup {li}
  /\ li' = li + 1
  /\ UNCHANGED <<svc, pc, smartVars, basicVars, lyrics_str, lines, ret>>

\* lines 79-89 and 33: conversion raises, and nothing between it and the
\* caller of process_lyrics_text catches the exception
LineRaise ==
  /\ pc = "block_loop"
  /\ li <= Len(lines)
  /\ LET line == strip(lines[li]) IN
       /\ time_match(line) # 0
       /\ gate(content_of(line))
       /\ smart_raises(svc, content_of(line))
  /\ pc' = "block_raised"
  /\ UNCHANGED <<svc, smartVars, basicVars, blockVars>>

\* line 101
BlockReturn ==
  /\ pc = "block_loop"
  /\ li > Len(lines)
  /\ ret' = Str(join_lines(new_lines))
  /\ pc' = "block_done"
  /\ UNCHANGED <<svc, smartVars, basicVars, lyrics_str, lines, li, new_lines, sent, bcalls>>

NextBlock == ReturnEmpty \/ SplitLines \/ LinePass \/ LineAnnotate \/ BlockReturn

SpecBlock == InitBlock /\ [][NextBlock]_vars

(***************************************************************************)
(* process_lyrics_text with a service that can raise.                      *)
(***************************************************************************)
InitFail ==
  /\ svc \in FailingServices
  /\ lyrics_str \in BlockInputs
  /\ pc = "block_start"
  /\ text = <<>>
  /\ lines = <<>> /\ li = 1 /\ new_lines = <<>> /\ ret = NoneVal
  /\ sent = {} /\ bcalls = <<>>
  /\ SmartIdle /\ BasicIdle

NextFail == ReturnEmpty \/ SplitLines \/ LinePass \/ LineAnnotate \/ LineRaise \/ BlockReturn

SpecFail == InitFail /\ [][NextFail]_vars

(***************************************************************************)
(* Properties.                                                             *)
(***************************************************************************)
InSmart == pc \in {"smart_loop", "smart_done"}

\* C1: add_furigana_smart is idempotent: applied to its own result it
\* returns that result unchanged.
C1_Idempotent == (pc = "smart_done" /\ pass = 2) => out = first

RECURSIVE C2_Expected(_, _, _)
\* the outputs of the fragments ps[j], ps[j+1], ...: a fragment at an even
\* index is a match captured by the split (Annotated), one at an odd index is
\* the text between two matches (Plain)
C2_Expected(s, ps, j) ==
  IF j > Len(ps) THEN <<>>
  ELSE (IF ps[j] = <<>> THEN <<>>
        ELSE IF j % 2 = 0 THEN <<ps[j]>>
        ELSE <<add_furigana_basic(s, ps[j])>>) \o C2_Expected(s, ps, j + 1)

RECURSIVE C2_Plain(_, _)
\* the non-empty Plain fragments from index j on
C2_Plain(ps, j) ==
  IF j > Len(ps) THEN <<>>
  ELSE (IF ps[j] # <<>> /\ j % 2 = 1 THEN <<ps[j]>> ELSE <<>>) \o C2_Plain(ps, j + 1)

\* C2: every fragment the split classifies as Annotated is in the output
\* verbatim, the outputs of the fragments are in the order of the fragments,
\* and add_furigana_basic is called on the Plain fragments only.
C2_AnnotatedVerbatim ==
  InSmart =>
    LET seen == SubSeq(parts, 1, pi - 1) IN
      /\ final_line = C2_Expected(svc, seen, 1)
      /\ calls = C2_Plain(seen, 1)
      /\ kept = {j \in 1..(pi - 1) : j % 2 = 0}
      /\ pc = "smart_done" => out = Join(C2_Expected(svc, parts, 1))

C2_Witness ==
  /\ pc = "smart_done" /\ pass = 1
  /\ kept # {} /\ calls # <<>> /\ Len(final_line) >= 2
  /\ out # text

\* C3: the fragments of the split, the empty ones included, concatenate to
\* the string that was split.
C3_Lossless == InSmart => Join(parts) = text

C3_Witness ==
  /\ pc = "smart_loop" /\ Len(parts) = 3
  /\ parts[1] # <<>> /\ parts[2] # <<>> /\ parts[3] = <<>>

\* what the claim says one token contributes
C4_Render(item) ==
  IF has_kanji(item.orig) /\ item.hira # item.orig
    THEN item.orig \o <<ChLParen>> \o item.hira \o <<ChRParen>>
  ELSE item.orig

RECURSIVE C4_Concat(_, _)
\* the contributions of the first n tokens, in order
C4_Concat(items, n) ==
  IF n = 0 THEN <<>> ELSE C4_Concat(items, n - 1) \o C4_Render(items[n])

\* C4: add_furigana_basic returns the in-order concatenation over the tokens
\* of surface(reading) for a token with a kanji and a reading that differs
\* from the surface, and of the surface otherwise; a text without kanji is
\* returned unchanged.
C4_Annotate ==
  /\ pc = "basic_loop" => new_line = C4_Concat(result, ri - 1)
  /\ pc = "basic_done" =>
       /\ out = C4_Concat(conversion(svc, text), Len(conversion(svc, text)))
       /\ ~has_kanji(text) => out = text

C4_Witness ==
  /\ pc = "basic_done"
  /\ out # text
  /\ \E i \in 1..Len(result) : ~has_kanji(result[i].orig) /\ result[i].orig # result[i].hira

BlockDone == pc = "block_done" /\ ~Falsy(lyrics_str)

\* o is raw without its leading and trailing whitespace
C5_IsTrimOf(o, raw) ==
  \E a \in 0..Len(raw) : \E b \in 0..(Len(raw) - a) :
    /\ o = SubSeq(raw, a + 1, Len(raw) - b)
    /\ \A k \in 1..a : raw[k] \in WhiteSpace
    /\ \A k \in (Len(raw) - b + 1)..Len(raw) : raw[k] \in WhiteSpace
    /\ o = <<>> \/ (o[1] \notin WhiteSpace /\ o[Len(o)] \notin WhiteSpace)

C6_Trim(raw) ==
  LET nz == {k \in 1..Len(raw) : raw[k] \notin WhiteSpace} IN
    IF nz = {} THEN <<>>
    ELSE SubSeq(raw, CHOOSE a \in nz : \A k \in nz : a <= k,
                     CHOOSE b \in nz : \A k \in nz : k <= b)

\* position of the first "]" of the string, 0 if it has none
C6_FirstClose(l) ==
  LET ps == {p \in 1..Len(l) : l[p] = ChRBrack} IN
    IF ps = {} THEN 0 ELSE CHOOSE p \in ps : \A q \in ps : p <= q

\* the raw line starts, after whitespace, with "[", one or more of digit ":"
\* ".", and "]", and the rest has a kanji and a kana
C6_Qualifies(raw) ==
  LET l == C6_Trim(raw)
      e == C6_FirstClose(l)
  IN /\ e > 2
     /\ l[1] = ChLBrack
     /\ \A k \in 2..(e - 1) : (l[k] >= ChZero /\ l[k] <= DigitHi) \/ l[k] \in {ChColon, ChDot}
     /\ \E k \in (e + 1)..Len(l) : l[k] >= KanjiLo /\ l[k] <= KanjiHi
     /\ \E k \in (e + 1)..Len(l) : l[k] >= KanaLo /\ l[k] <= KanaHi

C6_Prefix(raw) == LET l == C6_Trim(raw) IN SubSeq(l, 1, C6_FirstClose(l))
C6_Content(raw) ==
  LET l == C6_Trim(raw) IN C6_Trim(SubSeq(l, C6_FirstClose(l) + 1, Len(l)))

C6_IsSubstring(a, b) == \E k \in 0..(Len(b) - Len(a)) : a = SubSeq(b, k + 1, k + Len(a))

\* C6: for a line that matches the timestamp pattern and passes the gate, the
\* output line is the timestamp prefix followed by add_furigana_smart of the
\* trimmed content, and every text given to add_furigana_basic for the line
\* is a piece of that content.
C6_TimestampKept ==
  pc \in {"block_loop", "block_done"} =>
    \A i \in 1..Len(new_lines) :
      C6_Qualifies(lines[i]) =>
        /\ i \in sent
        /\ new_lines[i] = C6_Prefix(lines[i]) \o add_furigana_smart(svc, C6_Content(lines[i]))
        /\ \A k \in 1..Len(bcalls) :
             bcalls[k].line = i => C6_IsSubstring(bcalls[k].arg, C6_Content(lines[i]))

C6_Witness ==
  /\ BlockDone
  /\ \E i \in sent :
       /\ C6_Qualifies(lines[i])
       /\ \E k \in 1..Len(lines[i]) : lines[i][k] \in WhiteSpace
       /\ \E k \in 1..Len(bcalls) : bcalls[k].line = i

\* C7: a failure of the service does not escape process_lyrics_text.
C7_FailOpen == pc # "block_raised"

\* C8 as claimed: an empty input is returned unchanged.
C8_Unchanged == (pc = "block_done" /\ Falsy(lyrics_str)) => ret = lyrics_str

\* C8 as amended: for an empty input, the null value or the empty string,
\* process_lyrics_text returns the null value.
C8_ReturnsNone == (pc = "block_done" /\ Falsy(lyrics_str)) => ret = NoneVal

C8_Witness == pc = "block_done" /\ lyrics_str = Str(<<>>)

\* the span p, a match of the pattern, opens and closes with parentheses of
\* different styles
C9_Mixed(p) ==
  \/ (\E q \in 1..Len(p) : p[q] = ChLParen) /\ p[Len(p)] = ChFwRParen
  \/ (\E q \in 1..Len(p) : p[q] = ChFwLParen) /\ p[Len(p)] = ChRParen

\* s is kanji/kana/iteration marks, an opening parenthesis, kana, a closing
\* parenthesis, the two parentheses of different styles
C9_MixedSpan(s) ==
  \E q \in 2..(Len(s) - 2) :
    /\ \A k \in 1..(q - 1) :
         \/ (s[k] >= KanjiLo /\ s[k] <= KanjiHi)
         \/ (s[k] >= KanaLo /\ s[k] <= KanaHi)
         \/ s[k] = IterMark
    /\ \A k \in (q + 1)..(Len(s) - 1) : s[k] >= KanaLo /\ s[k] <= KanaHi
    /\ \/ s[q] = ChLParen /\ s[Len(s)] = ChFwRParen
       \/ s[q] = ChFwLParen /\ s[Len(s)] = ChRParen

\* C9 as claimed: no fragment kept verbatim as Annotated has parentheses of
\* different styles.
C9_MixedNotRecognized == InSmart => \A j \in kept : ~C9_Mixed(parts[j])

\* C9 as amended: a span whose parentheses are of different styles is
\* recognized as Annotated: it is kept verbatim and is not given to
\* add_furigana_basic.
C9_MixedRecognized ==
  (pc = "smart_done" /\ C9_MixedSpan(text)) => (out = text /\ calls = <<>> /\ kept = {2})

C9_Witness == pc = "smart_done" /\ pass = 1 /\ C9_MixedSpan(text) /\ has_kanji(text)

C10_Run(c) ==
  (c >= KanjiLo /\ c <= KanjiHi) \/ (c >= KanaLo /\ c <= KanaHi) \/ c = IterMark

\* s is P + R + open + K + close, R = s[p..q-1] a maximal run of
\* kanji/kana/iteration marks, K one or more kana
C10_Shape(s, p, q) ==
  /\ 1 <= p /\ p < q /\ q + 2 <= Len(s)
  /\ \A k \in p..(q - 1) : C10_Run(s[k])
  /\ p = 1 \/ ~C10_Run(s[p - 1])
  /\ s[q] \in {ChLParen, ChFwLParen}
  /\ \A k \in (q + 1)..(Len(s) - 1) : s[k] >= KanaLo /\ s[k] <= KanaHi
  /\ s[Len(s)] \in {ChRParen, ChFwRParen}

RECURSIVE C10_SumLen(_)
C10_SumLen(ss) == IF ss = <<>> THEN 0 ELSE Len(Head(ss)) + C10_SumLen(Tail(ss))

\* C10: for a content P + R + open + K + close with R the maximal run of
\* kanji/kana/iteration marks before the parenthesis, the whole of
\* R + open + K + close is one fragment kept verbatim at the end of the
\* output, and only text of P is given to add_furigana_basic.
C10_WholeRunProtected ==
  pc = "smart_done" =>
    \A p \in 1..Len(text) : \A q \in 1..Len(text) :
      C10_Shape(text, p, q) =>
        LET n == Len(parts) IN
          /\ n >= 3
          /\ parts[n] = <<>>
          /\ parts[n - 1] = SubSeq(text, p, Len(text))
          /\ (n - 1) \in kept
          /\ final_line[Len(final_line)] = SubSeq(text, p, Len(text))
          /\ Join(SubSeq(parts, 1, n - 2)) = SubSeq(text, 1, p - 1)
          /\ C10_SumLen(calls) <= p - 1
          /\ SubSeq(out, Len(out) - (Len(text) - p), Len(out)) = SubSeq(text, p, Len(text))

C10_Witness ==
  /\ pc = "smart_done" /\ pass = 1
  /\ \E p \in 1..Len(text) : \E q \in 1..Len(text) :
       /\ C10_Shape(text, p, q)
       /\ q - p >= 2
       /\ IsKanji(text[p])
       /\ add_furigana_basic(svc, SubSeq(text, p, q - 1)) # SubSeq(text, p, q - 1)

====
